---- MODULE Spec2Model ----
(***************************************************************************)
(* Order-management store: the entity model (models.py), the SQLite-backed *)
(* entity store and its JSON interchange (db.py).                          *)
(*                                                                         *)
(* The database is four tables.  clients, products and orders are          *)
(* functions from the AUTOINCREMENT rowid to the row's other columns;      *)
(* order_items is the sequence of its rows in rowid order (its own rowid   *)
(* is never read by the code, so a row's position stands for it).  seq is  *)
(* sqlite_sequence, the table SQLite keeps for AUTOINCREMENT columns.      *)
(***************************************************************************)
EXTENDS Integers, Sequences, FiniteSets, TLC

VARIABLES
    clients,      \* table clients:  id -> [name, email, phone, address]
    products,     \* table products: id -> [name, price, category, stock]
    orders,       \* table orders:   id -> [client_id, order_date, total]
    order_items,  \* table order_items, rows in rowid order
    seq,          \* sqlite_sequence: table name -> largest rowid handed out
    last,         \* the most recent call of the store and what it returned
    file,         \* the JSON document export_to_json wrote last
    imp,          \* import_from_json in progress: entities still to process
    tx,           \* the open write transaction of an add_order in progress
    rd,           \* a reader (get_order ...) in progress on its own connection
    obj           \* one in-memory Order object (models.Order)

vars == <<clients, products, orders, order_items, seq, last, file, imp, tx, rd, obj>>

tables == <<clients, products, orders, order_items, seq>>

----------------------------------------------------------------------------
(* Bounds of the model *)

\* AUTOINCREMENT rowids handed out per table before the model stops adding
MaxId == 2
\* items in one order
MaxItems == 2
\* width of the significand of the model's binary floating point numbers
\* (Python floats have 53 bits; the rounding rule is the same)
MantBits == 3
\* mutations applied to one in-memory Order object
MaxMut == 3

\* Python's None where an identity is expected; no rowid is 0
NoId == 0

----------------------------------------------------------------------------
(* Arithmetic of Python floats: every result is rounded to the nearest     *)
(* number with a MantBits-bit significand, ties to even.                   *)

RECURSIVE Pow2(_)
Pow2(n) == IF n = 0 THEN 1 ELSE 2 * Pow2(n - 1)

\* the spacing of representable numbers around magnitude m
RECURSIVE Ulp(_, _)
Ulp(m, q) == IF m < q * Pow2(MantBits) THEN q ELSE Ulp(m, 2 * q)

RoundMag(m) ==
    LET q    == Ulp(m, 1)
        lo   == (m \div q) * q
        rem  == m - lo
    IN  IF 2 * rem < q THEN lo
        ELSE IF 2 * rem > q THEN lo + q
        ELSE IF (lo \div q) % 2 = 0 THEN lo ELSE lo + q

Round(x) == IF x < 0 THEN 0 - RoundMag(0 - x) ELSE RoundMag(x)

FAdd(a, b) == Round(a + b)
FSub(a, b) == Round(a - b)
FMul(a, b) == Round(a * b)

\* sum(xs) of Python: left to right from the integer 0
RECURSIVE FSum(_)
FSum(xs) == IF xs = <<>> THEN 0
            ELSE FAdd(FSum(SubSeq(xs, 1, Len(xs) - 1)), xs[Len(xs)])

----------------------------------------------------------------------------
(* models.py: the entity objects *)

Client(name, email, phone, address, id) ==
    [id |-> id, name |-> name, email |-> email, phone |-> phone, address |-> address]

Product(name, price, category, stock, id) ==
    [id |-> id, name |-> name, price |-> price, category |-> category, stock |-> stock]

OrderItem(product_id, quantity, price) ==
    [product_id |-> product_id, quantity |-> quantity, price |-> price,
     total |-> FMul(quantity, price)]

ItemTotals(items) == [i \in 1..Len(items) |-> items[i].total]

Order(client_id, items, order_date, id) ==
    [id |-> id, client_id |-> client_id, items |-> items, order_date |-> order_date,
     total |-> FSum(ItemTotals(items))]

add_item(o, item) ==
    [o EXCEPT !.items = Append(o.items, item), !.total = FAdd(o.total, item.total)]

\* index of the first item with this product_id, 0 when there is none
FirstIndex(items, product_id) ==
    IF \E i \in 1..Len(items) : items[i].product_id = product_id
    THEN CHOOSE i \in 1..Len(items) :
            /\ items[i].product_id = product_id
            /\ \A j \in 1..(i - 1) : items[j].product_id # product_id
    ELSE 0

DelAt(s, i) == SubSeq(s, 1, i - 1) \o SubSeq(s, i + 1, Len(s))

remove_item(o, product_id) ==
    LET i == FirstIndex(o.items, product_id)
    IN  IF i = 0 THEN o
        ELSE [o EXCEPT !.total = FSub(o.total, o.items[i].total),
                       !.items = DelAt(o.items, i)]

----------------------------------------------------------------------------
(* datetime.isoformat / datetime.fromisoformat.  A datetime is the pair of *)
(* its whole seconds and its microseconds; the ISO-8601 text is the list   *)
(* of its fields, and isoformat() leaves the microseconds out when they    *)
(* are zero.                                                               *)

DateTime(sec, us) == [sec |-> sec, us |-> us]

isoformat(dt) == IF dt.us = 0 THEN <<dt.sec>> ELSE <<dt.sec, dt.us>>

fromisoformat(text) ==
    DateTime(text[1], IF Len(text) > 1 THEN text[2] ELSE 0)

----------------------------------------------------------------------------
(* Client.is_valid_email / is_valid_phone: the verdict of the two regular  *)
(* expressions on the strings of the model.  Client.__init__ raises        *)
(* ValueError on a string that fails either, also when get_client builds   *)
(* the Client of a stored row.                                             *)

is_valid_email(email) == email \in {"a@x.ru", "b@x.ru"}

is_valid_phone(phone) == phone \in {"+79990000000"}

\* a constructor that checks nothing
ClientInitAccepts(email, phone) == FALSE

ClientInitRaises(email, phone) == ~is_valid_email(email) \/ ~is_valid_phone(phone)

----------------------------------------------------------------------------
(* to_dict / from_dict of the entities (models.py) *)

Client_to_dict(c) ==
    [id |-> c.id, name |-> c.name, email |-> c.email, phone |-> c.phone,
     address |-> c.address]

Client_from_dict(d) == Client(d.name, d.email, d.phone, d.address, d.id)

Product_to_dict(p) ==
    [id |-> p.id, name |-> p.name, price |-> p.price, category |-> p.category,
     stock |-> p.stock]

Product_from_dict(d) == Product(d.name, d.price, d.category, d.stock, d.id)

OrderItem_to_dict(it) ==
    [product_id |-> it.product_id, quantity |-> it.quantity, price |-> it.price,
     total |-> it.total]

\* the 'total' key of the record is not read
OrderItem_from_dict(d) == OrderItem(d.product_id, d.quantity, d.price)

Order_to_dict(o) ==
    [id |-> o.id, client_id |-> o.client_id, order_date |-> isoformat(o.order_date),
     items |-> [i \in 1..Len(o.items) |-> OrderItem_to_dict(o.items[i])],
     total |-> o.total]

\* the 'total' key of the record is not read
Order_from_dict(d) ==
    Order(d.client_id,
          [i \in 1..Len(d.items) |-> OrderItem_from_dict(d.items[i])],
          fromisoformat(d.order_date), d.id)

----------------------------------------------------------------------------
(* The database.  A value of it is a record of the four tables and         *)
(* sqlite_sequence; the variables hold the committed one.                  *)

EmptyDB ==
    [clients |-> <<>>, products |-> <<>>, orders |-> <<>>, order_items |-> <<>>,
     seq |-> [clients |-> 0, products |-> 0, orders |-> 0]]

DB == [clients |-> clients, products |-> products, orders |-> orders,
       order_items |-> order_items, seq |-> seq]

SetDB(d) ==
    /\ clients' = d.clients
    /\ products' = d.products
    /\ orders' = d.orders
    /\ order_items' = d.order_items
    /\ seq' = d.seq

MaxOf(S) == IF S = {} THEN 0 ELSE CHOOSE x \in S : \A y \in S : y <= x

\* ids of a table in rowid order, the order of a SELECT without ORDER BY
RECURSIVE SortedIds(_)
SortedIds(S) ==
    IF S = {} THEN <<>>
    ELSE LET m == MaxOf(S) IN Append(SortedIds(S \ {m}), m)

\* INTEGER PRIMARY KEY without AUTOINCREMENT: one more than the largest
\* rowid the table holds now
NextRowidReused(tbl, s) == MaxOf(DOMAIN tbl) + 1

\* INTEGER PRIMARY KEY AUTOINCREMENT: one more than the largest rowid the
\* table ever held
NextRowid(tbl, s) == MaxOf(DOMAIN tbl \cup {s}) + 1

\* a function with one more / one less argument
Put(f, k, v) == [x \in DOMAIN f \cup {k} |-> IF x = k THEN v ELSE f[x]]
Drop(f, k) == [x \in DOMAIN f \ {k} |-> f[x]]

\* what the connection's context manager does when the block ends:
\* commit when it ends normally, rollback when an exception leaves it
Commit(committed, working) == working

\* a connection that keeps what the failed transaction had written
RollbackKeepsWrites(committed, working) == working

Rollback(committed, working) == committed

----------------------------------------------------------------------------
(* db.py: the store's operations on a database value d.  Each yields the   *)
(* database it leaves committed, what it returns ("id", "True", "False",   *)
(* "None", or "raised" when it raises) and the rowid it returns (for an    *)
(* update or a delete: the identity it was called with).  fault            *)
(* says that the storage engine fails the statement (sqlite3.Error: the    *)
(* disk is full, the file is locked, ...).                                 *)

Result(d, ret, id) == [db |-> d, ret |-> ret, id |-> id]

\* a call that raised after `done` statements of its transaction had run
Raised(d, done) == [db |-> d, ret |-> "raised", id |-> NoId, done |-> done]

ClientRow(c) == [name |-> c.name, email |-> c.email, phone |-> c.phone,
                 address |-> c.address]

\* a clients table whose email column is not UNIQUE
EmailNeverTaken(d, email, id) == FALSE

\* the UNIQUE constraint on clients.email, for a row written under rowid id
EmailTaken(d, email, id) ==
    \E k \in DOMAIN d.clients : k # id /\ d.clients[k].email = email

\* an INSERT that names the id column: the row goes under c.id when the
\* object carries one
InsertClientUnderGivenId(d, c) ==
    LET id == IF c.id # NoId THEN c.id ELSE NextRowid(d.clients, d.seq.clients)
    IN  [d EXCEPT !.clients = Put(d.clients, id, ClientRow(c)),
                  !.seq.clients = id]

\* INSERT INTO clients: the rowid is AUTOINCREMENT's, whatever c.id holds
InsertClient(d, c) ==
    LET id == NextRowid(d.clients, d.seq.clients)
    IN  [d EXCEPT !.clients = Put(d.clients, id, ClientRow(c)),
                  !.seq.clients = id]

add_client(d, c, fault) ==
    IF fault \/ EmailTaken(d, c.email, NoId)
    THEN Raised(Rollback(d, d), 0)
    ELSE LET w == InsertClient(d, c)
         IN  Result(Commit(d, w), "id", w.seq.clients)

\* a SELECT without its WHERE clause: fetchone() yields the first row
get_client_first(d, client_id) ==
    IF DOMAIN d.clients # {}
    THEN LET k == SortedIds(DOMAIN d.clients)[1]
             r == d.clients[k]
         IN  <<Client(r.name, r.email, r.phone, r.address, k)>>
    ELSE <<>>

get_client(d, client_id) ==
    IF client_id \in DOMAIN d.clients
    THEN LET r == d.clients[client_id]
         IN  <<Client(r.name, r.email, r.phone, r.address, client_id)>>
    ELSE <<>>

get_all_clients(d) ==
    LET ids == SortedIds(DOMAIN d.clients)
    IN  [i \in 1..Len(ids) |-> get_client(d, ids[i])[1]]

\* UPDATE clients SET ... WHERE id=?
UpdateClient(d, c) == [d EXCEPT !.clients[c.id] = ClientRow(c)]

\* an update that inserts the row when the identity is missing
update_client_upsert(d, c, fault) ==
    IF fault \/ EmailTaken(d, c.email, c.id) THEN Result(Rollback(d, d), "False", c.id)
    ELSE Result(Commit(d, [d EXCEPT !.clients = Put(d.clients, c.id, ClientRow(c))]),
                "True", c.id)

update_client(d, c, fault) ==
    IF fault THEN Result(Rollback(d, d), "False", c.id)
    ELSE IF c.id \notin DOMAIN d.clients THEN Result(Commit(d, d), "False", c.id)
    ELSE IF EmailTaken(d, c.email, c.id) THEN Result(Rollback(d, d), "False", c.id)
    ELSE Result(Commit(d, UpdateClient(d, c)), "True", c.id)

\* a DELETE that takes the client's orders and their items with it
DeleteClientCascade(d, client_id) ==
    LET gone == {k \in DOMAIN d.orders : d.orders[k].client_id = client_id}
        Kept(r) == r.order_id \notin gone
    IN  [d EXCEPT !.clients = Drop(d.clients, client_id),
                  !.orders = [k \in DOMAIN d.orders \ gone |-> d.orders[k]],
                  !.order_items = SelectSeq(d.order_items, Kept)]

DeleteClient(d, client_id) == [d EXCEPT !.clients = Drop(d.clients, client_id)]

\* a delete that lets the storage engine's error through
delete_client_raising(d, client_id, fault) ==
    IF fault THEN Raised(Rollback(d, d), 0)
    ELSE IF client_id \notin DOMAIN d.clients THEN Result(Commit(d, d), "False", client_id)
    ELSE Result(Commit(d, [d EXCEPT !.clients = Drop(d.clients, client_id)]), "True",
                client_id)

delete_client(d, client_id, fault) ==
    IF fault THEN Result(Rollback(d, d), "False", client_id)
    ELSE IF client_id \notin DOMAIN d.clients THEN Result(Commit(d, d), "False", client_id)
    ELSE Result(Commit(d, DeleteClient(d, client_id)), "True", client_id)

ProductRow(p) == [name |-> p.name, price |-> p.price, category |-> p.category,
                  stock |-> p.stock]

InsertProduct(d, p) ==
    LET id == NextRowid(d.products, d.seq.products)
    IN  [d EXCEPT !.products = Put(d.products, id, ProductRow(p)),
                  !.seq.products = id]

add_product(d, p, fault) ==
    IF fault
    THEN Raised(Rollback(d, d), 0)
    ELSE LET w == InsertProduct(d, p)
         IN  Result(Commit(d, w), "id", w.seq.products)

get_product(d, product_id) ==
    IF product_id \in DOMAIN d.products
    THEN LET r == d.products[product_id]
         IN  <<Product(r.name, r.price, r.category, r.stock, product_id)>>
    ELSE <<>>

get_all_products(d) ==
    LET ids == SortedIds(DOMAIN d.products)
    IN  [i \in 1..Len(ids) |-> get_product(d, ids[i])[1]]

UpdateProduct(d, p) == [d EXCEPT !.products[p.id] = ProductRow(p)]

update_product(d, p, fault) ==
    IF fault THEN Result(Rollback(d, d), "False", p.id)
    ELSE IF p.id \notin DOMAIN d.products THEN Result(Commit(d, d), "False", p.id)
    ELSE Result(Commit(d, UpdateProduct(d, p)), "True", p.id)

DeleteProduct(d, product_id) == [d EXCEPT !.products = Drop(d.products, product_id)]

delete_product(d, product_id, fault) ==
    IF fault THEN Result(Rollback(d, d), "False", product_id)
    ELSE IF product_id \notin DOMAIN d.products THEN Result(Commit(d, d), "False", product_id)
    ELSE Result(Commit(d, DeleteProduct(d, product_id)), "True", product_id)

----------------------------------------------------------------------------
(* db.py: orders.  add_order runs several INSERTs in one transaction.      *)

NoFault == 0 - 1

OrderRow(o) == [client_id |-> o.client_id, order_date |-> isoformat(o.order_date),
                total |-> o.total]

ItemRow(order_id, it) ==
    [order_id |-> order_id, product_id |-> it.product_id, quantity |-> it.quantity,
     price |-> it.price]

\* INSERT INTO orders; cursor.lastrowid is then w.seq.orders
InsertOrder(w, o) ==
    LET id == NextRowid(w.orders, w.seq.orders)
    IN  [w EXCEPT !.orders = Put(w.orders, id, OrderRow(o)), !.seq.orders = id]

\* an INSERT that also takes the quantity from the product's stock
InsertItemTakingStock(w, order_id, it) ==
    LET x == [w EXCEPT !.order_items = Append(w.order_items, ItemRow(order_id, it))]
    IN  IF it.product_id \in DOMAIN w.products
        THEN [x EXCEPT !.products[it.product_id].stock = @ - it.quantity]
        ELSE x

\* INSERT INTO order_items
InsertItem(w, order_id, it) ==
    [w EXCEPT !.order_items = Append(w.order_items, ItemRow(order_id, it))]

\* the first n INSERTs of the loop over order.items
RECURSIVE InsertItems(_, _, _, _)
InsertItems(w, order_id, items, n) ==
    IF n = 0 THEN w
    ELSE InsertItem(InsertItems(w, order_id, items, n - 1), order_id, items[n])

\* a connection opened with PRAGMA foreign_keys = ON: the INSERT of a row
\* that refers to a missing client or product fails
FkChecked(d, client_id, items) ==
    \/ client_id \notin DOMAIN d.clients
    \/ \E i \in 1..Len(items) : items[i].product_id \notin DOMAIN d.products

\* whether the connection rejects the rows for their FOREIGN KEY clauses:
\* sqlite3.connect leaves foreign_keys off and no PRAGMA turns it on
FkRejects(d, client_id, items) == FALSE

\* faultAt: NoFault, or 0 when the INSERT of the header fails, or k when the
\* INSERT of the k-th item fails
add_order(d, o, faultAt) ==
    IF faultAt = 0 \/ FkRejects(d, o.client_id, o.items) THEN Raised(Rollback(d, d), 0)
    ELSE LET h  == InsertOrder(d, o)
             id == h.seq.orders
         IN  IF faultAt \in 1..Len(o.items)
             THEN Raised(Rollback(d, InsertItems(h, id, o.items, faultAt - 1)),
                         faultAt)
             ELSE Result(Commit(d, InsertItems(h, id, o.items, Len(o.items))),
                         "id", id)

\* SELECT * FROM order_items WHERE order_id = ?
ItemsOf(d, order_id) ==
    LET Mine(r) == r.order_id = order_id
        rows == SelectSeq(d.order_items, Mine)
    IN  [i \in 1..Len(rows) |->
            OrderItem(rows[i].product_id, rows[i].quantity, rows[i].price)]

get_order(d, order_id) ==
    IF order_id \in DOMAIN d.orders
    THEN LET r == d.orders[order_id]
         IN  <<Order(r.client_id, ItemsOf(d, order_id), fromisoformat(r.order_date),
                     order_id)>>
    ELSE <<>>

get_all_orders(d) ==
    LET ids == SortedIds(DOMAIN d.orders)
    IN  [i \in 1..Len(ids) |-> get_order(d, ids[i])[1]]

get_orders_by_client(d, client_id) ==
    LET ids == SortedIds({k \in DOMAIN d.orders : d.orders[k].client_id = client_id})
    IN  [i \in 1..Len(ids) |-> get_order(d, ids[i])[1]]

\* a delete_order that leaves the item rows where they are
DeleteNoItems(d, order_id) == d

\* DELETE FROM order_items WHERE order_id=?
DeleteItems(d, order_id) ==
    LET Others(r) == r.order_id # order_id
    IN  [d EXCEPT !.order_items = SelectSeq(d.order_items, Others)]

\* DELETE FROM orders WHERE id=?
DeleteOrder(d, order_id) == [d EXCEPT !.orders = Drop(d.orders, order_id)]

delete_order(d, order_id, fault) ==
    IF fault THEN Result(Rollback(d, DeleteItems(d, order_id)), "False", order_id)
    ELSE LET w == DeleteOrder(DeleteItems(d, order_id), order_id)
         IN  Result(Commit(d, w),
                    IF order_id \in DOMAIN d.orders THEN "True" ELSE "False", order_id)

----------------------------------------------------------------------------
(* The values the callers pass in *)

Names == {"Ann"}
Emails == {"a@x.ru", "b@x.ru"}
Phones == {"+79990000000"}
Addresses == {"Moscow"}
ProductNames == {"Book"}
Categories == {"goods"}
Prices == {1, 2}
Stocks == {5}
Dates == {DateTime(1, 0)}

Ids == 1..MaxId
\* the id attribute of an object passed in: None or any identity
ArgIds == {NoId} \cup Ids

ClientInputs ==
    {Client(n, e, ph, a, id) :
        n \in Names, e \in Emails, ph \in Phones, a \in Addresses, id \in ArgIds}

ProductInputs ==
    {Product(n, pr, c, st, id) :
        n \in ProductNames, pr \in Prices, c \in Categories, st \in Stocks,
        id \in ArgIds}

\* two items: one of product 1 at price 1, two of product 2 at price 2
ItemA == OrderItem(1, 1, 1)
ItemB == OrderItem(2, 2, 2)

\* the item lists and the client of the orders passed in
OrderShapes ==
    {<<1, <<ItemA, ItemB>>>>, <<1, <<>>>>, <<2, <<ItemB>>>>, <<2, <<ItemB, ItemA>>>>,
     <<2, <<ItemA, ItemA>>>>}

OrderInputs ==
    {Order(sh[1], sh[2], dt, id) : sh \in OrderShapes, dt \in Dates, id \in ArgIds}

----------------------------------------------------------------------------
(* The store used by one caller at a time: every call runs to its end      *)
(* before the next one starts.                                             *)

NoFile == <<>>
Idle == [pc |-> "idle"]
NoObj == [pc |-> "none"]

\* last.done: for a call that raised, the statements of its transaction
\* that had run before the one that failed
Returned(op, r) ==
    [op |-> op, ret |-> r.ret, id |-> r.id,
     done |-> IF r.ret = "raised" THEN r.done ELSE 0]

Call(op, r) ==
    /\ SetDB(r.db)
    /\ last' = Returned(op, r)

StoreOnly == UNCHANGED <<file, imp, tx, rd, obj>>

InitStore ==
    /\ clients = EmptyDB.clients
    /\ products = EmptyDB.products
    /\ orders = EmptyDB.orders
    /\ order_items = EmptyDB.order_items
    /\ seq = EmptyDB.seq
    /\ last = Returned("init_db", Result(EmptyDB, "None", NoId))

Init ==
    /\ InitStore
    /\ file = NoFile
    /\ imp = Idle
    /\ tx = Idle
    /\ rd = Idle
    /\ obj = NoObj

DoAddClient(c, fault) ==
    /\ seq.clients < MaxId
    /\ Call("add_client", add_client(DB, c, fault))
    /\ StoreOnly

DoUpdateClient(c, fault) ==
    /\ Call("update_client", update_client(DB, c, fault))
    /\ StoreOnly

DoDeleteClient(id, fault) ==
    /\ Call("delete_client", delete_client(DB, id, fault))
    /\ StoreOnly

DoAddProduct(p, fault) ==
    /\ seq.products < MaxId
    /\ Call("add_product", add_product(DB, p, fault))
    /\ StoreOnly

DoUpdateProduct(p, fault) ==
    /\ Call("update_product", update_product(DB, p, fault))
    /\ StoreOnly

DoDeleteProduct(id, fault) ==
    /\ Call("delete_product", delete_product(DB, id, fault))
    /\ StoreOnly

DoAddOrder(o, faultAt) ==
    /\ seq.orders < MaxId
    /\ Call("add_order", add_order(DB, o, faultAt))
    /\ StoreOnly

DoDeleteOrder(id, fault) ==
    /\ Call("delete_order", delete_order(DB, id, fault))
    /\ StoreOnly

\* F: whether the storage engine may fail a statement of the call
ClientCalls(F) ==
    \/ \E c \in ClientInputs, fault \in F : DoAddClient(c, fault)
    \/ \E c \in ClientInputs, fault \in F : DoUpdateClient(c, fault)
    \/ \E id \in Ids, fault \in F : DoDeleteClient(id, fault)

ProductCalls(F) ==
    \/ \E p \in ProductInputs, fault \in F : DoAddProduct(p, fault)
    \/ \E p \in ProductInputs, fault \in F : DoUpdateProduct(p, fault)
    \/ \E id \in Ids, fault \in F : DoDeleteProduct(id, fault)

\* the statements of add_order at which the storage engine may fail
FaultPoints(o, F) ==
    IF TRUE \in F THEN {NoFault} \cup 0..Len(o.items) ELSE {NoFault}

OrderCalls(F) ==
    \/ \E o \in OrderInputs : \E faultAt \in FaultPoints(o, F) : DoAddOrder(o, faultAt)
    \/ \E id \in Ids, fault \in F : DoDeleteOrder(id, fault)

\* the whole store on a storage engine that does not fail
Next == ClientCalls({FALSE}) \/ ProductCalls({FALSE}) \/ OrderCalls({FALSE})

Spec == Init /\ [][Next]_vars

\* the client and product calls alone, on a storage engine that may fail
NextClients == ClientCalls(BOOLEAN) \/ ProductCalls(BOOLEAN)

SpecClients == Init /\ [][NextClients]_vars

\* the order calls alone, on a storage engine that may fail
NextOrders == OrderCalls(BOOLEAN)

SpecOrders == Init /\ [][NextOrders]_vars

----------------------------------------------------------------------------
(* C1: an add_order that fails at the INSERT of its k-th item, the header  *)
(* row and the items before it already inserted, leaves the database as    *)
(* it was before the call: no header row, no item row, sqlite_sequence as  *)
(* before.                                                                 *)
C1_FailedAddOrderLeavesNothing ==
    [][(last'.op = "add_order" /\ last'.ret = "raised") => UNCHANGED tables]_vars

\* an add_order has failed at its second item while another order is stored
C1_Witness ==
    /\ last.op = "add_order"
    /\ last.ret = "raised"
    /\ last.done = 2
    /\ DOMAIN orders # {}

----------------------------------------------------------------------------
(* C8: a successful add_client, add_product or add_order returns an        *)
(* identity that no row of the table had, stores the new row under it and  *)
(* leaves the other rows alone; the id attribute of the object passed in   *)
(* does not matter: the call with any other id attribute does the same.    *)
FreshRow(tbl, tbl2, id) ==
    /\ id \notin DOMAIN tbl
    /\ DOMAIN tbl2 = DOMAIN tbl \cup {id}
    /\ \A k \in DOMAIN tbl : tbl2[k] = tbl[k]

Added(op) == last'.op = op /\ last'.ret = "id"

\* the database after the step
DBNext == [clients |-> clients', products |-> products', orders |-> orders',
           order_items |-> order_items', seq |-> seq']

C8_AddClient ==
    Added("add_client") =>
        /\ FreshRow(clients, clients', last'.id)
        /\ \E c \in ClientInputs : clients'[last'.id] = ClientRow(c)
        /\ \A c \in ClientInputs :
              clients'[last'.id] = ClientRow(c) =>
                  add_client(DB, c, FALSE) = Result(DBNext, "id", last'.id)

C8_AddProduct ==
    Added("add_product") =>
        /\ FreshRow(products, products', last'.id)
        /\ \E p \in ProductInputs : products'[last'.id] = ProductRow(p)
        /\ \A p \in ProductInputs :
              products'[last'.id] = ProductRow(p) =>
                  add_product(DB, p, FALSE) = Result(DBNext, "id", last'.id)

C8_AddOrder ==
    Added("add_order") =>
        /\ FreshRow(orders, orders', last'.id)
        /\ ItemsOf(DB, last'.id) = <<>>
        /\ LET got == get_order(DBNext, last'.id)
                 Same(o) == got = <<[o EXCEPT !.id = last'.id]>>
           IN  /\ \E o \in OrderInputs : Same(o)
               /\ \A o \in OrderInputs :
                     Same(o) => add_order(DB, o, NoFault) = Result(DBNext, "id", last'.id)

C8_AddAssignsFreshIdentity ==
    [][(last'.ret = "id") => (C8_AddClient /\ C8_AddProduct /\ C8_AddOrder)]_vars

\* add_client has returned 2 while no row has identity 1 any more
C8_Witness ==
    /\ last.op = "add_client"
    /\ last.ret = "id"
    /\ last.id = 2
    /\ DOMAIN clients = {2}
    /\ DOMAIN orders # {}
    /\ DOMAIN products # {}

----------------------------------------------------------------------------
\* the other tables of a step that writes at most one
OnlyClients == UNCHANGED <<products, orders, order_items, seq>>
OnlyProducts == UNCHANGED <<clients, orders, order_items, seq>>

\* the storage engine accepts the UPDATE of client c
ClientUpdateAccepted(c, f) == ~f /\ ~EmailTaken(DB, c.email, c.id)

\* the storage engine accepts the UPDATE of product p
ProductUpdateAccepted(p, f) == ~f

C9_UpdateClient(Accepted(_, _)) ==
    \A c \in ClientInputs, f \in BOOLEAN :
        DoUpdateClient(c, f) =>
            IF c.id \notin DOMAIN clients
            THEN last'.ret = "False" /\ UNCHANGED tables
            ELSE IF Accepted(c, f)
            THEN /\ last'.ret = "True"
                 /\ clients' = [clients EXCEPT ![c.id] = ClientRow(c)]
                 /\ OnlyClients
            ELSE last'.ret = "False" /\ UNCHANGED tables

C9_UpdateProduct(Accepted(_, _)) ==
    \A p \in ProductInputs, f \in BOOLEAN :
        DoUpdateProduct(p, f) =>
            IF p.id \notin DOMAIN products
            THEN last'.ret = "False" /\ UNCHANGED tables
            ELSE IF Accepted(p, f)
            THEN /\ last'.ret = "True"
                 /\ products' = [products EXCEPT ![p.id] = ProductRow(p)]
                 /\ OnlyProducts
            ELSE last'.ret = "False" /\ UNCHANGED tables

IsUpdate == last'.op \in {"update_client", "update_product"}

----------------------------------------------------------------------------
IsUpdateOrDelete ==
    last'.op \in {"update_client", "update_product", "delete_client", "delete_product"}

\* the UPDATE of client c meets a storage fault: the engine fails, or the
\* UNIQUE constraint on email rejects it
ClientUpdateFaulted(c) ==
    \/ DoUpdateClient(c, TRUE)
    \/ /\ DoUpdateClient(c, FALSE)
       /\ c.id \in DOMAIN clients
       /\ EmailTaken(DB, c.email, c.id)

----------------------------------------------------------------------------
(* One in-memory Order object (models.Order) and its mutators.  The        *)
(* prices are floats whose sums do not all fit the significand.            *)

ObjItemInputs == {OrderItem(1, 1, 7), OrderItem(2, 1, 1), OrderItem(2, 2, 1)}

\* the sequences over S of length n or less
RECURSIVE SeqsUpTo(_, _)
SeqsUpTo(S, n) ==
    IF n = 0 THEN {<<>>}
    ELSE LET shorter == SeqsUpTo(S, n - 1)
         IN  shorter \cup {Append(q, x) : q \in {r \in shorter : Len(r) = n - 1}, x \in S}

\* product ids asked to be removed; 3 is held by no item
ObjProductIds == 1..3

InitOrder ==
    /\ InitStore
    /\ file = NoFile
    /\ imp = Idle
    /\ tx = Idle
    /\ rd = Idle
    /\ \E items \in SeqsUpTo(ObjItemInputs, MaxItems), dt \in Dates :
          obj = [pc |-> "order", o |-> Order(1, items, dt, NoId), n |-> 0]

DoAddItem(it) ==
    /\ obj.n < MaxMut
    /\ obj' = [obj EXCEPT !.o = add_item(obj.o, it), !.n = obj.n + 1]
    /\ UNCHANGED <<clients, products, orders, order_items, seq, last, file, imp, tx, rd>>

DoRemoveItem(product_id) ==
    /\ obj.n < MaxMut
    /\ obj' = [obj EXCEPT !.o = remove_item(obj.o, product_id), !.n = obj.n + 1]
    /\ UNCHANGED <<clients, products, orders, order_items, seq, last, file, imp, tx, rd>>

NextOrder ==
    \/ \E it \in ObjItemInputs : DoAddItem(it)
    \/ \E product_id \in ObjProductIds : DoRemoveItem(product_id)

SpecOrder == InitOrder /\ [][NextOrder]_vars

(* C3: order.total equals sum(item.total for item in order.items) right    *)
(* after construction and after every add_item and remove_item.            *)
C3_TotalIsSumOfItems ==
    obj.pc = "order" => obj.o.total = FSum(ItemTotals(obj.o.items))

----------------------------------------------------------------------------
(* add_order statement by statement, with a reader that runs get_order,    *)
(* get_all_orders or get_orders_by_client on connections of its own.  tx   *)
(* is the writer's open transaction: the order being added, the rowid of   *)
(* its header, the items inserted so far and the database as the writer's  *)
(* connection sees it.  The variables hold what is committed, which is     *)
(* what every other connection reads.                                      *)

\* an add_order that commits each INSERT as it runs
WhileOpenCommitEach(committed, working) == working

\* what is committed while add_order's transaction is open: the INSERTs
\* stay in the transaction until the one conn.commit() after the loop
WhileOpen(committed, working) == committed

TxInsertHeader(o, fault) ==
    /\ tx = Idle
    /\ seq.orders < MaxId
    /\ IF fault
       THEN /\ Call("add_order", Raised(Rollback(DB, DB), 0))
            /\ tx' = tx
       ELSE LET w == InsertOrder(DB, o)
            IN  /\ tx' = [pc |-> "open", order |-> o, order_id |-> w.seq.orders,
                          n |-> 0, w |-> w]
                /\ SetDB(WhileOpen(DB, w))
                /\ last' = last
    /\ UNCHANGED <<file, imp, rd, obj>>

TxInsertItem(fault) ==
    /\ tx.pc = "open"
    /\ tx.n < Len(tx.order.items)
    /\ IF fault
       THEN /\ Call("add_order", Raised(Rollback(DB, tx.w), tx.n + 1))
            /\ tx' = Idle
       ELSE LET w == InsertItem(tx.w, tx.order_id, tx.order.items[tx.n + 1])
            IN  /\ tx' = [tx EXCEPT !.n = tx.n + 1, !.w = w]
                /\ SetDB(WhileOpen(DB, w))
                /\ last' = last
    /\ UNCHANGED <<file, imp, rd, obj>>

TxCommit ==
    /\ tx.pc = "open"
    /\ tx.n = Len(tx.order.items)
    /\ Call("add_order", Result(Commit(DB, tx.w), "id", tx.order_id))
    /\ tx' = Idle
    /\ UNCHANGED <<file, imp, rd, obj>>

\* the reader: ids are the orders still to fetch, header the row its first
\* SELECT found, out the Order objects built so far
Reading(ids) == [pc |-> "header", ids |-> ids, header |-> <<>>, out |-> <<>>]

RdGetOrder(order_id) ==
    /\ rd = Idle
    /\ rd' = Reading(<<order_id>>)
    /\ UNCHANGED <<clients, products, orders, order_items, seq, last, file, imp, tx, obj>>

\* SELECT id FROM orders
RdGetAllOrders ==
    /\ rd = Idle
    /\ rd' = Reading(SortedIds(DOMAIN orders))
    /\ UNCHANGED <<clients, products, orders, order_items, seq, last, file, imp, tx, obj>>

\* SELECT id FROM orders WHERE client_id = ?
RdGetOrdersByClient(client_id) ==
    /\ rd = Idle
    /\ rd' = Reading(SortedIds({k \in DOMAIN orders : orders[k].client_id = client_id}))
    /\ UNCHANGED <<clients, products, orders, order_items, seq, last, file, imp, tx, obj>>

\* get_order, first statement: SELECT * FROM orders WHERE id = ?
RdHeader ==
    /\ rd.pc = "header"
    /\ rd.ids # <<>>
    /\ LET id == Head(rd.ids)
       IN  IF id \in DOMAIN orders
           THEN rd' = [rd EXCEPT !.pc = "items", !.header = <<orders[id]>>]
           ELSE rd' = [rd EXCEPT !.ids = Tail(rd.ids)]
    /\ UNCHANGED <<clients, products, orders, order_items, seq, last, file, imp, tx, obj>>

\* get_order, second statement: SELECT * FROM order_items WHERE order_id = ?
RdItems ==
    /\ rd.pc = "items"
    /\ LET id == Head(rd.ids)
           r  == rd.header[1]
           o  == Order(r.client_id, ItemsOf(DB, id), fromisoformat(r.order_date), id)
       IN  rd' = [rd EXCEPT !.pc = "header", !.ids = Tail(rd.ids), !.header = <<>>,
                            !.out = Append(rd.out, o)]
    /\ UNCHANGED <<clients, products, orders, order_items, seq, last, file, imp, tx, obj>>

RdReturn ==
    /\ rd.pc = "header"
    /\ rd.ids = <<>>
    /\ rd' = Idle
    /\ UNCHANGED <<clients, products, orders, order_items, seq, last, file, imp, tx, obj>>

NextConc ==
    \/ \E o \in OrderInputs, fault \in BOOLEAN : TxInsertHeader(o, fault)
    \/ \E fault \in BOOLEAN : TxInsertItem(fault)
    \/ TxCommit
    \/ \E id \in Ids : RdGetOrder(id)
    \/ RdGetAllOrders
    \/ \E c \in Ids : RdGetOrdersByClient(c)
    \/ RdHeader
    \/ RdItems
    \/ RdReturn

SpecConc == Init /\ [][NextConc]_vars

\* the order whose transaction is open
InProgress(id) == tx.pc = "open" /\ tx.order_id = id

(* C2: a reader interleaved with the statements of add_order never holds   *)
(* the header of an order whose add_order has not committed, and every     *)
(* Order it has built carries all the items of that order.                 *)
C2_NoPartialOrderObserved ==
    rd.pc # "idle" =>
        /\ rd.pc = "items" => ~InProgress(Head(rd.ids))
        /\ \A i \in 1..Len(rd.out) :
              /\ ~InProgress(rd.out[i].id)
              /\ rd.out[i].items = ItemsOf(DB, rd.out[i].id)

\* the reader has built an order with two items while another add_order
\* has inserted its header and one of its two items
C2_Witness ==
    /\ rd.pc # "idle"
    /\ Len(rd.out) = 1
    /\ Len(rd.out[1].items) = 2
    /\ tx.pc = "open"
    /\ tx.n = 1
    /\ Len(tx.order.items) = 2

----------------------------------------------------------------------------
(* export_to_json / import_from_json.  file is the JSON file: empty, or    *)
(* the one document written last.  The import handles the document's       *)
(* entities one by one, each through a store call with a connection and a  *)
(* commit of its own, so it is modelled entity by entity; no other call    *)
(* runs meanwhile.  imp holds the entities the running import has still to *)
(* handle, and, for the imports since the store was opened: how many there *)
(* were, whether the first one started on an empty store, whether it       *)
(* returned, and the rows it left.                                         *)

MaxImports == 2
MaxImpRows == 1

Rows == <<clients, products, orders, order_items>>

\* the dict that json.dump writes; JSON text keeps its strings, integers,
\* floats and lists as they are
export_to_json(d) ==
    LET cs == get_all_clients(d)
        ps == get_all_products(d)
        os == get_all_orders(d)
    IN  [clients  |-> [i \in 1..Len(cs) |-> Client_to_dict(cs[i])],
         products |-> [i \in 1..Len(ps) |-> Product_to_dict(ps[i])],
         orders   |-> [i \in 1..Len(os) |-> Order_to_dict(os[i])]]

\* the kind of the entity the import handles next
NextKindOrdersFirst(todo) ==
    IF todo.orders # <<>> THEN "orders"
    ELSE IF todo.clients # <<>> THEN "clients"
    ELSE IF todo.products # <<>> THEN "products"
    ELSE "none"

NextKind(todo) ==
    IF todo.clients # <<>> THEN "clients"
    ELSE IF todo.products # <<>> THEN "products"
    ELSE IF todo.orders # <<>> THEN "orders"
    ELSE "none"

\* one round of the loop over data['clients']
import_client(d, data, fault) ==
    LET client == Client_from_dict(data)
    IN  IF get_client(d, client.id) # <<>>
        THEN update_client(d, client, FALSE)
        ELSE add_client(d, client, fault)

\* one round of the loop over data['products']
import_product(d, data, fault) ==
    LET product == Product_from_dict(data)
    IN  IF get_product(d, product.id) # <<>>
        THEN update_product(d, product, FALSE)
        ELSE add_product(d, product, fault)

\* an import that replaces the order it finds in the store
import_order_replacing(d, data, faultAt) ==
    LET order == Order_from_dict(data)
    IN  IF get_order(d, order.id) # <<>>
        THEN LET w == DeleteItems(d, order.id)
                 u == [w EXCEPT !.orders[order.id] = OrderRow(order)]
             IN  Result(InsertItems(u, order.id, order.items, Len(order.items)),
                        "True", order.id)
        ELSE add_order(d, order, faultAt)

\* one round of the loop over data['orders']
import_order(d, data, faultAt) ==
    LET order == Order_from_dict(data)
    IN  IF get_order(d, order.id) = <<>>
        THEN add_order(d, order, faultAt)
        ELSE Result(d, "None", order.id)

ImportsSoFar == IF imp.pc = "idle" THEN 0 ELSE imp.round

DoExportToJson ==
    /\ imp.pc = "idle"
    /\ file' = <<export_to_json(DB)>>
    /\ last' = Returned("export_to_json", Result(DB, "None", NoId))
    /\ UNCHANGED <<clients, products, orders, order_items, seq, imp, tx, rd, obj>>

\* Database(db_name) on a file that does not exist yet
NewDatabase ==
    /\ imp.pc = "idle"
    /\ file # NoFile
    /\ DB # EmptyDB
    /\ Call("init_db", Result(EmptyDB, "None", NoId))
    /\ UNCHANGED <<file, imp, tx, rd, obj>>

\* json.load
ImportBegin ==
    /\ imp.pc \in {"idle", "done"}
    /\ file # NoFile
    /\ ImportsSoFar < MaxImports
    /\ LET data == file[1]
           first == imp.pc = "idle"
       IN  imp' = [pc |-> "run", clients |-> data.clients,
                   products |-> data.products, orders |-> data.orders,
                   round  |-> ImportsSoFar + 1,
                   fresh  |-> IF first THEN DB = EmptyDB ELSE imp.fresh,
                   ok1    |-> IF first THEN FALSE ELSE imp.ok1,
                   after1 |-> IF first THEN Rows ELSE imp.after1]
    /\ UNCHANGED <<clients, products, orders, order_items, seq, last, file, tx, rd, obj>>

\* the statements at which the storage engine may fail the next entity
ImportFaults(todo) ==
    IF todo.pc # "run" THEN {}
    ELSE IF NextKind(todo) = "orders"
    THEN FaultPoints(Order_from_dict(Head(todo.orders)), BOOLEAN)
    ELSE {NoFault, 0}

\* the import handles the next entity of the document
ImportStep(faultAt) ==
    /\ imp.pc = "run"
    /\ NextKind(imp) # "none"
    /\ LET kind == NextKind(imp)
           r == CASE kind = "clients" ->
                        import_client(DB, Head(imp.clients), faultAt # NoFault)
                  [] kind = "products" ->
                        import_product(DB, Head(imp.products), faultAt # NoFault)
                  [] kind = "orders" ->
                        import_order(DB, Head(imp.orders), faultAt)
       IN  /\ SetDB(r.db)
           /\ IF r.ret = "raised"
              THEN /\ imp' = [imp EXCEPT !.pc = "done"]
                   /\ last' = Returned("import_from_json", r)
              ELSE /\ imp' = [imp EXCEPT ![kind] = Tail(imp[kind])]
                   /\ last' = last
    /\ UNCHANGED <<file, tx, rd, obj>>

ImportReturn ==
    /\ imp.pc = "run"
    /\ NextKind(imp) = "none"
    /\ imp' = [imp EXCEPT !.pc = "done",
                          !.ok1 = IF imp.round = 1 THEN TRUE ELSE imp.ok1,
                          !.after1 = IF imp.round = 1 THEN Rows ELSE imp.after1]
    /\ last' = Returned("import_from_json", Result(DB, "None", NoId))
    /\ UNCHANGED <<clients, products, orders, order_items, seq, file, tx, rd, obj>>

ImpProductInputs == {Product("Book", 1, "goods", 5, NoId)}

ImpOrderInputs ==
    {Order(2, <<ItemB>>, DateTime(1, 0), NoId),
     Order(1, <<ItemA, ItemB>>, DateTime(1, 5), NoId)}

\* the calls that fill the store before an import
ImportStoreCalls ==
    /\ imp.pc = "idle"
    /\ \/ ClientCalls({FALSE})
       \/ \E p \in ImpProductInputs : seq.products < MaxImpRows /\ DoAddProduct(p, FALSE)
       \/ \E id \in 1..MaxImpRows : DoDeleteProduct(id, FALSE)
       \/ \E o \in ImpOrderInputs : seq.orders < MaxImpRows /\ DoAddOrder(o, NoFault)
       \/ \E id \in 1..MaxImpRows : DoDeleteOrder(id, FALSE)

NextImport ==
    \/ ImportStoreCalls
    \/ DoExportToJson
    \/ NewDatabase
    \/ ImportBegin
    \/ \E faultAt \in ImportFaults(imp) : ImportStep(faultAt)
    \/ ImportReturn

SpecImport == Init /\ [][NextImport]_vars

----------------------------------------------------------------------------
(* Claims about export_to_json and import_from_json *)

\* the first import since the store was opened has returned
FirstImportReturned == imp.pc = "done" /\ imp.round = 1 /\ imp.ok1

(* C4: exporting a store and importing the document into an empty store    *)
(* yields the clients, products and orders of the exported store, with the *)
(* same identities and the same client and product references: the new     *)
(* store exports to the same document.                                     *)
C4_ExportImportRoundTrip ==
    (FirstImportReturned /\ imp.fresh) => export_to_json(DB) = file[1]

(* C5: importing a document a second time right after importing it once    *)
(* returns without an error and leaves the rows the first import left.     *)
C5_SecondImportChangesNothing ==
    (imp.pc = "done" /\ imp.round = 2 /\ imp.ok1) =>
        /\ last.ret # "raised"
        /\ Rows = imp.after1

\* the import is handling an entity in this step
ImportedOne == imp.pc = "run" /\ NextKind(imp) # "none"

\* the step ends the import before the document's end
ImportRaised == ImportedOne /\ imp'.pc = "done"

C6_Client(Existing(_)) ==
    LET c == Client_from_dict(Head(imp.clients))
    IN  IF c.id \in DOMAIN clients
        THEN /\ imp'.pc = "run"
             /\ UNCHANGED <<products, orders, order_items, seq>>
             /\ Existing(c)
        ELSE \/ ImportRaised /\ UNCHANGED tables
             \/ /\ imp'.pc = "run"
                /\ FreshRow(clients, clients', seq'.clients)
                /\ clients'[seq'.clients] = ClientRow(c)
                /\ UNCHANGED <<products, orders, order_items>>

C6_Product(Existing(_)) ==
    LET p == Product_from_dict(Head(imp.products))
    IN  IF p.id \in DOMAIN products
        THEN /\ imp'.pc = "run"
             /\ UNCHANGED <<clients, orders, order_items, seq>>
             /\ Existing(p)
        ELSE \/ ImportRaised /\ UNCHANGED tables
             \/ /\ imp'.pc = "run"
                /\ FreshRow(products, products', seq'.products)
                /\ products'[seq'.products] = ProductRow(p)
                /\ UNCHANGED <<clients, orders, order_items>>

C6_Order(Existing(_)) ==
    LET o == Order_from_dict(Head(imp.orders))
    IN  IF o.id \in DOMAIN orders
        THEN /\ imp'.pc = "run"
             /\ UNCHANGED <<clients, products, seq>>
             /\ Existing(o)
        ELSE \/ ImportRaised /\ UNCHANGED tables
             \/ /\ imp'.pc = "run"
                /\ FreshRow(orders, orders', seq'.orders)
                /\ get_order(DBNext, seq'.orders) = <<[o EXCEPT !.id = seq'.orders]>>
                /\ \A k \in DOMAIN orders : get_order(DBNext, k) = get_order(DB, k)
                /\ UNCHANGED <<clients, products>>

C6_Step(ExistingClient(_), ExistingProduct(_), ExistingOrder(_)) ==
    ImportedOne =>
        CASE NextKind(imp) = "clients"  -> C6_Client(ExistingClient)
          [] NextKind(imp) = "products" -> C6_Product(ExistingProduct)
          [] NextKind(imp) = "orders"   -> C6_Order(ExistingOrder)

\* what the code does to an entity whose identity is in the store
ClientMerged(c) ==
    IF EmailTaken(DB, c.email, c.id) THEN clients' = clients
    ELSE clients' = [clients EXCEPT ![c.id] = ClientRow(c)]

ProductMerged(p) == products' = [products EXCEPT ![p.id] = ProductRow(p)]

OrderKept(o) == orders' = orders /\ order_items' = order_items

\* what the claim says of it: the stored fields become the document's
ClientUpdated(c) == get_client(DBNext, c.id) = <<c>>

ProductUpdated(p) == get_product(DBNext, p.id) = <<p>>

OrderUpdated(o) == get_order(DBNext, o.id) = <<o>>

C7_ImportPhasesAndCommits ==
    [][ImportedOne =>
        /\ clients' # clients => NextKind(imp) = "clients"
        /\ products' # products => imp.clients = <<>> /\ NextKind(imp) = "products"
        /\ (orders' # orders \/ order_items' # order_items) =>
              imp.clients = <<>> /\ imp.products = <<>>
        /\ IF ImportRaised
           THEN /\ last'.op = "import_from_json" /\ last'.ret = "raised"
                /\ UNCHANGED tables
                /\ imp'.pc = "done"
                /\ imp'.clients = imp.clients
                /\ imp'.products = imp.products
                /\ imp'.orders = imp.orders
           ELSE /\ imp'.pc = "run"
                /\ Len(imp'.clients) + Len(imp'.products) + Len(imp'.orders) + 1
                     = Len(imp.clients) + Len(imp.products) + Len(imp.orders)]_vars

\* an import into an empty store raised at an order after it had added a
\* client and a product
C7_Witness ==
    /\ imp.pc = "done"
    /\ last.op = "import_from_json" /\ last.ret = "raised"
    /\ imp.round = 1 /\ imp.fresh
    /\ imp.clients = <<>> /\ imp.products = <<>> /\ imp.orders # <<>>
    /\ clients # <<>> /\ products # <<>> /\ orders = <<>>

----------------------------------------------------------------------------
(* Clients and products on a storage engine that fails no statement: what *)
(* add_client raises here it raises for the UNIQUE constraint.             *)

NextCatalog == ClientCalls({FALSE}) \/ ProductCalls({FALSE})

SpecCatalog == Init /\ [][NextCatalog]_vars

\* some row of the table holds this email
HoldsEmail(tbl, email) == \E k \in DOMAIN tbl : tbl[k].email = email

(* C11: add_client with the email of a client row already in the store     *)
(* raises, returns no identity and leaves the clients table unchanged:     *)
(* an add_client that returns an identity has stored an email no row held, *)
(* and one that raises has changed no table.                               *)
C11_DuplicateEmailRaises ==
    [][last'.op = "add_client" =>
        /\ last'.ret \in {"id", "raised"}
        /\ last'.ret = "id" =>
              /\ last'.id \in DOMAIN clients'
              /\ ~HoldsEmail(clients, clients'[last'.id].email)
        /\ last'.ret = "raised" =>
              /\ last'.id = NoId
              /\ UNCHANGED tables]_vars

\* add_client has raised on a store that holds a client
C11_Witness ==
    /\ last.op = "add_client"
    /\ last.ret = "raised"
    /\ DOMAIN clients = {1}
    /\ seq.clients = 1

----------------------------------------------------------------------------
(* Claims about the getters *)

\* the identities asked for: None, every identity a table can hold and one
\* beyond
AskedIds == 0..(MaxId + 1)

ClientGot(id) ==
    LET r == get_client(DB, id)
    IN  IF id \in DOMAIN clients
        THEN /\ Len(r) = 1
             /\ r[1].id = id
             /\ ClientRow(r[1]) = clients[id]
             /\ ~ClientInitRaises(clients[id].email, clients[id].phone)
        ELSE r = <<>>

ProductGot(id) ==
    LET r == get_product(DB, id)
    IN  IF id \in DOMAIN products
        THEN /\ Len(r) = 1
             /\ r[1].id = id
             /\ ProductRow(r[1]) = products[id]
        ELSE r = <<>>

OrderGot(id) ==
    LET r == get_order(DB, id)
        Mine(row) == row.order_id = id
    IN  IF id \in DOMAIN orders
        THEN /\ Len(r) = 1
             /\ r[1].id = id
             /\ r[1].client_id = orders[id].client_id
             /\ isoformat(r[1].order_date) = orders[id].order_date
             /\ [i \in 1..Len(r[1].items) |-> ItemRow(id, r[1].items[i])]
                   = SelectSeq(order_items, Mine)
        ELSE r = <<>>

\* a list with one entity per row of the table, each the one its get returns
AllGot(all, tbl, get(_, _)) ==
    /\ Len(all) = Cardinality(DOMAIN tbl)
    /\ {all[i].id : i \in 1..Len(all)} = DOMAIN tbl
    /\ \A i \in 1..Len(all) : <<all[i]>> = get(DB, all[i].id)

(* C12: in every store state get_client, get_product and get_order return  *)
(* the entity of the row with the identity asked for, and None when there  *)
(* is no such row; the get_all lists hold one entity per stored row; no    *)
(* stored row makes a getter raise.                                        *)
C12_GettersReturnStoredOrNone ==
    /\ \A id \in AskedIds : ClientGot(id) /\ ProductGot(id) /\ OrderGot(id)
    /\ AllGot(get_all_clients(DB), clients, get_client)
    /\ AllGot(get_all_products(DB), products, get_product)
    /\ AllGot(get_all_orders(DB), orders, get_order)

\* every table holds row 2 and has lost row 1, and order 2 has two items
C12_Witness ==
    /\ DOMAIN clients = {2}
    /\ DOMAIN products = {2}
    /\ DOMAIN orders = {2}
    /\ Len(order_items) = 2

----------------------------------------------------------------------------
(* delete_order statement by statement.  tx is its open transaction: the   *)
(* identity asked for, the statements run so far and the database as the   *)
(* connection sees it.                                                     *)

\* DELETE FROM order_items WHERE order_id=?, the first statement
TxDeleteItems(order_id, fault) ==
    /\ tx = Idle
    /\ IF fault
       THEN /\ Call("delete_order", Result(Rollback(DB, DB), "False", order_id))
            /\ tx' = tx
       ELSE /\ tx' = [pc |-> "del", order_id |-> order_id, n |-> 1,
                      w |-> DeleteItems(DB, order_id), found |-> FALSE]
            /\ SetDB(WhileOpen(DB, DeleteItems(DB, order_id)))
            /\ last' = last
    /\ UNCHANGED <<file, imp, rd, obj>>

\* DELETE FROM orders WHERE id=?, the second statement; found is its
\* cursor.rowcount > 0
TxDeleteHeader(fault) ==
    /\ tx.pc = "del"
    /\ tx.n = 1
    /\ IF fault
       THEN /\ Call("delete_order", Result(Rollback(DB, tx.w), "False", tx.order_id))
            /\ tx' = Idle
       ELSE /\ tx' = [tx EXCEPT !.n = 2, !.w = DeleteOrder(tx.w, tx.order_id),
                                !.found = tx.order_id \in DOMAIN tx.w.orders]
            /\ SetDB(WhileOpen(DB, DeleteOrder(tx.w, tx.order_id)))
            /\ last' = last
    /\ UNCHANGED <<file, imp, rd, obj>>

\* conn.commit() and return cursor.rowcount > 0
TxDeleteCommit ==
    /\ tx.pc = "del"
    /\ tx.n = 2
    /\ Call("delete_order",
            Result(Commit(DB, tx.w), IF tx.found THEN "True" ELSE "False", tx.order_id))
    /\ tx' = Idle
    /\ UNCHANGED <<file, imp, rd, obj>>

NextDelete ==
    \/ \E o \in OrderInputs : tx = Idle /\ DoAddOrder(o, NoFault)
    \/ \E id \in Ids, fault \in BOOLEAN : TxDeleteItems(id, fault)
    \/ \E fault \in BOOLEAN : TxDeleteHeader(fault)
    \/ TxDeleteCommit

SpecDelete == Init /\ [][NextDelete]_vars

\* the item rows of the table that belong to other orders
ItemsOfOthers(items, order_id) ==
    LET Others(r) == r.order_id # order_id IN SelectSeq(items, Others)

\* the header rows of the other orders
OtherOrders(tbl, order_id) == [k \in DOMAIN tbl \ {order_id} |-> tbl[k]]

\* the open transaction after its first statement: the items of the order
\* are gone and every header is still there
C13_ItemsFirst ==
    (tx'.pc = "del" /\ tx'.n = 1) =>
        /\ tx'.w.orders = orders
        /\ tx'.w.order_items = ItemsOfOthers(order_items, tx'.order_id)

\* delete_order returns
C13_Returns ==
    (last'.op = "delete_order" /\ tx' = Idle /\ last' # last) \/
    (tx.pc = "del" /\ tx' = Idle)

C13_Result ==
    LET id == last'.id
    IN  IF tx.pc = "del" /\ tx.n = 2
        THEN /\ id = tx.order_id
             /\ last'.ret = IF id \in DOMAIN orders THEN "True" ELSE "False"
             /\ id \notin DOMAIN orders'
             /\ ItemsOf(DBNext, id) = <<>>
             /\ orders' = OtherOrders(orders, id)
             /\ order_items' = ItemsOfOthers(order_items, id)
             /\ last'.ret = "False" => UNCHANGED tables
             /\ UNCHANGED <<clients, products, seq>>
        ELSE /\ last'.ret = "False"
             /\ UNCHANGED tables

(* C13: delete_order deletes the item rows, then the header row, in one    *)
(* transaction: nothing is committed before both statements have run; a    *)
(* call that reaches its commit returns True exactly when the header row   *)
(* existed, and then the header and every item row of that order are gone  *)
(* and every other order and item row is as before; a call that the        *)
(* storage engine fails returns False and changes nothing.                 *)
C13_DeleteOrderItemsThenHeader ==
    [][/\ C13_ItemsFirst
       /\ tx'.pc = "del" => UNCHANGED tables
       /\ C13_Returns => C13_Result]_vars

\* order 1 and its two items have been deleted, the other order is left
C13_Witness ==
    /\ last.op = "delete_order" /\ last.ret = "True" /\ last.id = 1
    /\ DOMAIN orders = {2}
    /\ Len(order_items) = 2
    /\ Len(ItemsOf(DB, 2)) = 2

----------------------------------------------------------------------------
(* Claims about references between the tables *)

(* C14: add_order of an order whose client or whose items' products are    *)
(* not in the store succeeds and stores the order with all its items as    *)
(* passed: on a storage engine that fails no statement every add_order     *)
(* returns an identity, and get_order of it is the order passed in.        *)
C14_AddOrderIgnoresMissingReferences ==
    [][last'.op = "add_order" =>
        /\ last'.ret = "id"
        /\ last'.id \in DOMAIN orders'
        /\ LET got == get_order(DBNext, last'.id)[1]
           IN  \E o \in OrderInputs : got = [o EXCEPT !.id = last'.id]]_vars

\* an order of client 2 with an item of product 2 has been added to a store
\* that holds client 1 and product 1 only
C14_Witness ==
    /\ last.op = "add_order" /\ last.ret = "id"
    /\ DOMAIN clients = {1}
    /\ DOMAIN products = {1}
    /\ orders[last.id].client_id = 2
    /\ \E i \in 1..Len(order_items) :
          order_items[i].order_id = last.id /\ order_items[i].product_id = 2

----------------------------------------------------------------------------
(* analysis.py: the views DataAnalyzer derives from the store.  A          *)
(* DataFrame is the sequence of its rows.                                  *)

\* the placeholders 'Неизвестный' and 'Неизвестная'
UnknownName == "Neizvestnyj"
UnknownCategory == "Neizvestnaya"

\* the rows get_orders_dataframe appends for one order
OrderLines(d, order) ==
    LET client == get_client(d, order.client_id)
    IN  [i \in 1..Len(order.items) |->
           LET item == order.items[i]
               product == get_product(d, item.product_id)
           IN  [order_id |-> order.id,
                client_id |-> order.client_id,
                client_name |-> IF client # <<>> THEN client[1].name ELSE UnknownName,
                order_date |-> order.order_date,
                product_id |-> item.product_id,
                product_name |-> IF product # <<>> THEN product[1].name
                                 ELSE UnknownName,
                product_category |-> IF product # <<>> THEN product[1].category
                                     ELSE UnknownCategory,
                quantity |-> item.quantity,
                price |-> item.price,
                total |-> item.total]]

RECURSIVE LinesOf(_, _)
LinesOf(d, os) ==
    IF os = <<>> THEN <<>>
    ELSE OrderLines(d, Head(os)) \o LinesOf(d, Tail(os))

\* a view that leaves out the orders whose client does not resolve
get_orders_dataframe_inner(d) ==
    LET Known(o) == get_client(d, o.client_id) # <<>>
    IN  LinesOf(d, SelectSeq(get_all_orders(d), Known))

\* the order-line view: one row per item of every order
get_orders_dataframe(d) == LinesOf(d, get_all_orders(d))

----------------------------------------------------------------------------
(* Claims about what deleting a client and adding an order leave alone *)

\* the rows of the view that belong to the orders of one client
LinesOfClient(df, client_id) ==
    LET Mine(row) == row.client_id = client_id IN SelectSeq(df, Mine)

\* the items of a list of orders, in order
RECURSIVE ItemsOfOrders(_)
ItemsOfOrders(os) ==
    IF os = <<>> THEN <<>> ELSE Head(os).items \o ItemsOfOrders(Tail(os))

Referenced(client_id) == \E k \in DOMAIN orders : orders[k].client_id = client_id

(* C15: delete_client of a client that stored orders refer to returns True, *)
(* removes that client row only and leaves orders and order_items as they  *)
(* are; the order-line view then still has the rows of those orders, one   *)
(* per item, with the placeholder as client name.                          *)
C15_DeleteReferencedClient ==
    [][(/\ last'.op = "delete_client"
        /\ last'.id \in DOMAIN clients
        /\ Referenced(last'.id)) =>
          LET id == last'.id
              before == LinesOfClient(get_orders_dataframe(DB), id)
              after  == LinesOfClient(get_orders_dataframe(DBNext), id)
              mine   == get_orders_by_client(DBNext, id)
          IN  /\ last'.ret = "True"
              /\ clients' = [k \in DOMAIN clients \ {id} |-> clients[k]]
              /\ UNCHANGED <<products, orders, order_items>>
              /\ Len(after) = Len(ItemsOfOrders(mine))
              /\ after = [i \in 1..Len(before) |->
                            [before[i] EXCEPT !.client_name = UnknownName]]]_vars

\* client 1 has been deleted and order 1, with two items, still refers to it
C15_Witness ==
    /\ last.op = "delete_client" /\ last.ret = "True" /\ last.id = 1
    /\ 1 \notin DOMAIN clients
    /\ 1 \in DOMAIN orders
    /\ orders[1].client_id = 1
    /\ Len(ItemsOf(DB, 1)) = 2

(* C16: add_order and delete_order leave the clients and products tables *)
(* as they are: no product's stock changes when an order is created or     *)
(* deleted, whatever quantities its items carry.                           *)
C16_OrdersLeaveClientsAndProducts ==
    [][last'.op \in {"add_order", "delete_order"} =>
        /\ clients' = clients
        /\ products' = products
        /\ seq'.clients = seq.clients
        /\ seq'.products = seq.products]_vars

\* an order with two units of product 2 has been added, and product 2 is in
\* the store with its stock of 5
C16_Witness ==
    /\ last.op = "add_order" /\ last.ret = "id"
    /\ 2 \in DOMAIN products
    /\ products[2].stock = 5
    /\ \E i \in 1..Len(order_items) :
          /\ order_items[i].order_id = last.id
          /\ order_items[i].product_id = 2
          /\ order_items[i].quantity = 2

----------------------------------------------------------------------------
(* analysis.py: the client summary and the sales statistics *)

\* Series.sum() of a float column: for fewer than eight values the values
\* are added in row order
SeriesSum(xs) == FSum(xs)

\* the row get_clients_dataframe appends for one client
ClientSummary(d, client) ==
    LET os == get_orders_by_client(d, client.id)
    IN  [client_id |-> client.id,
         client_name |-> client.name,
         email |-> client.email,
         phone |-> client.phone,
         address |-> client.address,
         orders_count |-> Len(os),
         total_spent |-> FSum([i \in 1..Len(os) |-> os[i].total])]

get_clients_dataframe(d) ==
    LET cs == get_all_clients(d)
    IN  [i \in 1..Len(cs) |-> ClientSummary(d, cs[i])]

\* a quotient a / b, as the fraction in lowest terms
RECURSIVE Gcd(_, _)
Gcd(a, b) == IF b = 0 THEN a ELSE Gcd(b, a % b)

\* what a division by zero leaves instead of a number
DivError == [num |-> 1, den |-> 0]

Fraction(a, b) ==
    IF b = 0 THEN DivError
    ELSE IF a = 0 THEN [num |-> 0, den |-> 1]
    ELSE [num |-> a \div Gcd(a, b), den |-> b \div Gcd(a, b)]

Zero == Fraction(0, 1)

\* x / y without the test of y
UnguardedDiv(a, b) == Fraction(a, b)

\* x / y if y > 0 else 0
GuardedDiv(a, b) == IF b > 0 THEN Fraction(a, b) ELSE Zero

get_sales_statistics(d) ==
    LET orders_df == get_orders_dataframe(d)
    IN  IF orders_df = <<>>
        THEN [total_orders |-> 0, total_revenue |-> 0, avg_order_value |-> Zero,
              total_clients |-> 0, avg_orders_per_client |-> Zero]
        ELSE LET total_orders == Cardinality({orders_df[i].order_id :
                                                i \in 1..Len(orders_df)})
                 total_revenue ==
                     SeriesSum([i \in 1..Len(orders_df) |-> orders_df[i].total])
                 total_clients == Len(get_clients_dataframe(d))
             IN  [total_orders |-> total_orders,
                  total_revenue |-> total_revenue,
                  avg_order_value |-> GuardedDiv(total_revenue, total_orders),
                  total_clients |-> total_clients,
                  avg_orders_per_client |-> GuardedDiv(total_orders, total_clients)]

----------------------------------------------------------------------------
(* Claims about the aggregates *)

Totals(xs) == [i \in 1..Len(xs) |-> xs[i].total]

(* C17: for every client in the store the client-summary row's total_spent *)
(* equals the sum of total over the orders get_orders_by_client returns    *)
(* for the client, and equals the sum of the total column of the           *)
(* order-line view's rows of that client; orders_count is the number of    *)
(* those orders.                                                           *)
C17_ClientSummaryAgrees ==
    LET summary == get_clients_dataframe(DB)
        view == get_orders_dataframe(DB)
    IN  \A i \in 1..Len(summary) :
           LET row == summary[i]
               os == get_orders_by_client(DB, row.client_id)
           IN  /\ row.orders_count = Len(os)
               /\ row.total_spent = FSum(Totals(os))
               /\ row.total_spent = SeriesSum(Totals(LinesOfClient(view, row.client_id)))

(* C18: in every store state get_sales_statistics reports total_orders    *)
(* equal to the number of distinct orders in the store, and total_revenue  *)
(* equal to the sum of all line totals across all orders, which equals the *)
(* sum of every stored order's total.                                      *)
C18_StatisticsCountOrdersAndRevenue ==
    LET stats == get_sales_statistics(DB)
        os == get_all_orders(DB)
    IN  /\ stats.total_orders = Cardinality(DOMAIN orders)
        /\ stats.total_revenue = FSum(Totals(ItemsOfOrders(os)))
        /\ stats.total_revenue = FSum(Totals(os))

(* C19: in every store state get_sales_statistics reports total_clients   *)
(* equal to the number of clients in the store and avg_orders_per_client   *)
(* equal to total_orders divided by that number, also when the store holds *)
(* clients but no orders.                                                  *)
C19_StatisticsCountClients ==
    LET stats == get_sales_statistics(DB)
        n == Cardinality(DOMAIN clients)
    IN  /\ stats.total_clients = n
        /\ n > 0 => stats.avg_orders_per_client = Fraction(stats.total_orders, n)

(* C20: get_sales_statistics never fails with a division by zero: in     *)
(* every store state both averages are numbers, avg_order_value is 0 when  *)
(* there are no orders and avg_orders_per_client is 0 when there are no    *)
(* clients, also when the store has orders whose clients are all deleted.  *)
C20_NoDivisionByZero ==
    LET stats == get_sales_statistics(DB)
    IN  /\ stats.avg_order_value.den # 0
        /\ stats.avg_orders_per_client.den # 0
        /\ DOMAIN orders = {} => stats.avg_order_value = Zero
        /\ DOMAIN clients = {} => stats.avg_orders_per_client = Zero

\* the last client has been deleted and an order with items is left behind
C20_Witness ==
    /\ last.op = "delete_client" /\ last.ret = "True"
    /\ DOMAIN clients = {}
    /\ get_orders_dataframe(DB) # <<>>
    /\ get_sales_statistics(DB).total_orders > 0

----------------------------------------------------------------------------
(* analysis.py: the product summary *)

RECURSIVE IntSum(_)
IntSum(xs) == IF xs = <<>> THEN 0 ELSE Head(xs) + IntSum(Tail(xs))

\* a scan that takes every item, whatever product it names
MatchingAll(items, product_id) == items

\* the items the scan accumulates: if item.product_id == product.id
Matching(items, product_id) ==
    LET Mine(it) == it.product_id = product_id IN SelectSeq(items, Mine)

ProductSummary(d, product) ==
    LET sold == Matching(ItemsOfOrders(get_all_orders(d)), product.id)
    IN  [product_id |-> product.id, product_name |-> product.name,
         price |-> product.price, category |-> product.category,
         stock |-> product.stock,
         total_sold |-> IntSum([i \in 1..Len(sold) |-> sold[i].quantity]),
         total_revenue |-> FSum(Totals(sold))]

get_products_dataframe(d) ==
    LET ps == get_all_products(d)
    IN  [i \in 1..Len(ps) |-> ProductSummary(d, ps[i])]

\* the item rows of the table that name this product and whose header is stored
RowsOfProduct(product_id) ==
    LET Mine(r) == r.product_id = product_id /\ r.order_id \in DOMAIN orders
    IN  SelectSeq(order_items, Mine)

(* C21: in every store state the product summary has exactly one row per  *)
(* product of the store; its total_sold is the sum of quantity and its     *)
(* total_revenue the sum of quantity * price over the items of the stored  *)
(* orders that name the product (zero when there is none); an item that    *)
(* names a product not in the store is counted in no row.                  *)
C21_ProductSummary ==
    LET df == get_products_dataframe(DB)
    IN  /\ Len(df) = Cardinality(DOMAIN products)
        /\ {df[i].product_id : i \in 1..Len(df)} = DOMAIN products
        /\ \A i \in 1..Len(df) :
              LET rows == RowsOfProduct(df[i].product_id)
              IN  /\ df[i].total_sold =
                        IntSum([k \in 1..Len(rows) |-> rows[k].quantity])
                  /\ df[i].total_revenue =
                        FSum([k \in 1..Len(rows) |->
                                 FMul(rows[k].quantity, rows[k].price)])
                  /\ rows = <<>> => df[i].total_sold = 0 /\ df[i].total_revenue = 0
        /\ IntSum([i \in 1..Len(df) |-> df[i].total_sold]) =
              LET InStore(r) == r.product_id \in DOMAIN products
                                /\ r.order_id \in DOMAIN orders
                  rows == SelectSeq(order_items, InStore)
              IN  IntSum([k \in 1..Len(rows) |-> rows[k].quantity])

\* product 1 is stored and sold, product 2 is named by an item and not stored
C21_Witness ==
    /\ DOMAIN products = {1}
    /\ RowsOfProduct(2) # <<>>
    /\ get_products_dataframe(DB)[1].total_sold > 0

----------------------------------------------------------------------------
(* Claims about the order-line view *)

\* the item rows of the table whose header is stored
StoredItemRows ==
    LET Headed(r) == r.order_id \in DOMAIN orders IN SelectSeq(order_items, Headed)

(* C22: in every store state the order-line view has exactly one row per  *)
(* (order, item) pair, so as many rows as the stored orders have items; a  *)
(* row whose client or product does not resolve is produced all the same   *)
(* and carries the placeholder.                                            *)
C22_OneRowPerOrderItem ==
    LET view == get_orders_dataframe(DB)
        rows == StoredItemRows
    IN  /\ Len(view) = Len(rows)
        /\ \A i \in 1..Len(view) :
              LET r == rows[i]
                  cid == orders[r.order_id].client_id
              IN  /\ view[i].order_id = r.order_id
                  /\ view[i].client_id = cid
                  /\ view[i].product_id = r.product_id
                  /\ view[i].quantity = r.quantity
                  /\ view[i].price = r.price
                  /\ view[i].client_name =
                        IF cid \in DOMAIN clients THEN clients[cid].name
                        ELSE UnknownName
                  /\ view[i].product_name =
                        IF r.product_id \in DOMAIN products
                        THEN products[r.product_id].name ELSE UnknownName
                  /\ view[i].product_category =
                        IF r.product_id \in DOMAIN products
                        THEN products[r.product_id].category ELSE UnknownCategory

\* two orders with items, one of a stored client and one of a client that is
\* not stored, and an item of a product that is not stored
C22_Witness ==
    /\ \E k \in DOMAIN orders : orders[k].client_id \in DOMAIN clients
    /\ \E i \in 1..Len(StoredItemRows) :
          /\ orders[StoredItemRows[i].order_id].client_id \notin DOMAIN clients
          /\ StoredItemRows[i].product_id \notin DOMAIN products
    /\ \E i \in 1..Len(StoredItemRows) :
          StoredItemRows[i].product_id \in DOMAIN products
    /\ Len(get_orders_dataframe(DB)) >= 3

----------------------------------------------------------------------------
(* analysis.py: plot_clients_network. The graph G is the pair of its nodes, *)
(* a function from client_id to the name attribute, and its edges, a        *)
(* function from the unordered pair {client1, client2} to the weight.       *)

\* orders_df[['client_id', 'client_name']].drop_duplicates(), then add_node
GraphNodes(df) ==
    LET ids == {df[i].client_id : i \in 1..Len(df)}
    IN  [c \in ids |->
            df[CHOOSE i \in 1..Len(df) :
                  /\ df[i].client_id = c
                  /\ \A j \in 1..Len(df) : df[j].client_id = c => i <= j].client_name]

\* orders_df.groupby('client_id')['product_id'].apply(set).to_dict()
client_products(df) ==
    [c \in {df[i].client_id : i \in 1..Len(df)} |->
        {df[i].product_id : i \in {j \in 1..Len(df) : df[j].client_id = c}}]

\* a loop that takes every two clients once
PairsOnce(ids) ==
    LET n == Len(ids)
        all == [k \in 1..(n * n) |-> <<ids[((k - 1) \div n) + 1], ids[((k - 1) % n) + 1]>>]
        Once(pr) == pr[1] < pr[2]
    IN  SelectSeq(all, Once)

\* the two nested loops over client_products.items(): every (client1, client2)
Pairs(ids) ==
    LET n == Len(ids)
    IN  [k \in 1..(n * n) |-> <<ids[((k - 1) \div n) + 1], ids[((k - 1) % n) + 1]>>]

\* the body of the inner loop
Visit(edges, client1, client2, cp) ==
    LET common_products == cp[client1] \cap cp[client2]
        e == {client1, client2}
    IN  IF client1 # client2 /\ common_products # {}
        THEN IF e \in DOMAIN edges
             THEN [edges EXCEPT ![e] = @ + Cardinality(common_products)]
             ELSE Put(edges, e, Cardinality(common_products))
        ELSE edges

RECURSIVE AddEdges(_, _, _)
AddEdges(edges, prs, cp) ==
    IF prs = <<>> THEN edges
    ELSE AddEdges(Visit(edges, Head(prs)[1], Head(prs)[2], cp), Tail(prs), cp)

BuildGraph(df) ==
    LET cp == client_products(df)
    IN  [nodes |-> GraphNodes(df),
         edges |-> AddEdges(<<>>, Pairs(SortedIds(DOMAIN cp)), cp)]

\* no graph is built for an empty view; min(weights) of a graph without
\* edges raises ValueError after the graph is built
plot_clients_network(d) ==
    LET orders_df == get_orders_dataframe(d)
    IN  IF orders_df = <<>> THEN [ret |-> "Figure", built |-> FALSE, G |-> <<>>]
        ELSE LET G == BuildGraph(orders_df)
             IN  IF DOMAIN G.edges = {}
                 THEN [ret |-> "ValueError", built |-> TRUE, G |-> G]
                 ELSE [ret |-> "Figure", built |-> TRUE, G |-> G]

----------------------------------------------------------------------------
(* Claims about the similarity graph *)

\* the products named by the items of the stored orders of one client
Purchased(client_id) ==
    {StoredItemRows[i].product_id :
        i \in {j \in 1..Len(StoredItemRows) :
                 orders[StoredItemRows[j].order_id].client_id = client_id}}

\* the graph of the present store, where one is built
Network == plot_clients_network(DB)

(* C23: the nodes of the similarity graph are exactly the clients of the  *)
(* store that have placed at least one order, each node carrying that      *)
(* client's name.                                                          *)
C23_NodesAreClientsWithOrders ==
    LET net == Network
        nodes == net.G.nodes
    IN  net.built =>
           /\ DOMAIN nodes = {c \in DOMAIN clients : Referenced(c)}
           /\ \A c \in DOMAIN nodes :
                 c \in DOMAIN clients /\ nodes[c] = clients[c].name

(* C24: in the similarity graph two distinct clients are joined by an edge *)
(* exactly when they have purchased a product in common, and the weight of *)
(* the edge is the number of products they have in common.                 *)
C24_WeightIsSharedProducts ==
    LET net == Network
        edges == net.G.edges
    IN  net.built =>
           \A a, b \in DOMAIN net.G.nodes :
               a # b =>
                  LET common == Purchased(a) \cap Purchased(b)
                  IN  /\ {a, b} \in DOMAIN edges <=> common # {}
                      /\ common # {} => edges[{a, b}] = Cardinality(common)

(* C25: the construction visits (A,B) and (B,A) for every two distinct    *)
(* clients and adds the size of the intersection to the same edge on each  *)
(* visit: every edge weighs twice the number of products the two clients   *)
(* share, 2 for two clients that share one product.                        *)
C25_WeightIsDoubled ==
    LET net == Network
        edges == net.G.edges
        nodes == net.G.nodes
    IN  net.built =>
           /\ \A e \in DOMAIN edges :
                 Cardinality(e) = 2 /\ e \subseteq DOMAIN nodes
           /\ \A a, b \in DOMAIN nodes :
                 a # b =>
                    LET common == Purchased(a) \cap Purchased(b)
                    IN  /\ {a, b} \in DOMAIN edges <=> common # {}
                        /\ common # {} =>
                              edges[{a, b}] = 2 * Cardinality(common)

\* two clients that share one product: one edge, of weight 2
C25_Witness ==
    LET net == Network
    IN  /\ net.built
        /\ DOMAIN net.G.nodes = {1, 2}
        /\ Cardinality(Purchased(1) \cap Purchased(2)) = 1
        /\ DOMAIN net.G.edges = {{1, 2}}
        /\ net.G.edges[{1, 2}] = 2

(* C30: in every store state whose order-line view is not empty           *)
(* plot_clients_network builds the graph and returns the figure without    *)
(* raising, also when no two clients share a product and the graph has     *)
(* nodes and no edge.                                                      *)
C30_NetworkDoesNotRaise ==
    LET net == Network
    IN  get_orders_dataframe(DB) # <<>> => net.built /\ net.ret = "Figure"

----------------------------------------------------------------------------
(* An OrderItem object on its own.  quantity, price and total are plain    *)
(* attributes: OrderItem has no property and no __setattr__, so an         *)
(* assignment stores the new value and nothing else.                       *)

MaxQty == 3

Quantities == 1..MaxQty
ItemPrices == {1, 2, 3}

InitItem ==
    /\ InitStore
    /\ file = NoFile
    /\ imp = Idle
    /\ tx = Idle
    /\ rd = Idle
    /\ \E product_id \in ObjProductIds, quantity \in Quantities, price \in ItemPrices :
          obj = [pc |-> "item", it |-> OrderItem(product_id, quantity, price)]

\* item.quantity = quantity
SetQuantity(quantity) ==
    /\ obj' = [obj EXCEPT !.it.quantity = quantity]
    /\ UNCHANGED <<clients, products, orders, order_items, seq, last, file, imp, tx, rd>>

\* item.price = price
SetPrice(price) ==
    /\ obj' = [obj EXCEPT !.it.price = price]
    /\ UNCHANGED <<clients, products, orders, order_items, seq, last, file, imp, tx, rd>>

NextItem ==
    \/ \E quantity \in Quantities : SetQuantity(quantity)
    \/ \E price \in ItemPrices : SetPrice(price)

SpecItem == InitItem /\ [][NextItem]_vars

(* C26: for every OrderItem total equals quantity times price at all      *)
(* times: after construction and after any later assignment to quantity or *)
(* to price.                                                               *)
C26_ItemTotalIsQuantityTimesPrice ==
    obj.pc = "item" => obj.it.total = FMul(obj.it.quantity, obj.it.price)

----------------------------------------------------------------------------
(* Clients from values that may fail validation.  A caller constructs a    *)
(* Client and passes the object it holds to add_client or update_client;   *)
(* import_from_json constructs its clients with Client.from_dict from a    *)
(* document that anyone may have written.  obj is the object the caller    *)
(* holds.                                                                  *)

RawEmails == Emails \cup {"ann.x.ru"}
RawPhones == Phones \cup {"12345"}

\* the arguments of the constructor: a new client and one for the row 1
RawClients ==
    {Client("Ann", e, ph, "", id) : e \in RawEmails, ph \in RawPhones, id \in {NoId, 1}}

\* the 'clients' lists of the documents offered to the import
RawDocuments ==
    {<<Client("Ann", "a@x.ru", "+79990000000", "", 1)>>,
     <<Client("Ann", "ann.x.ru", "+79990000000", "", 1)>>,
     <<Client("Ann", "b@x.ru", "+79990000000", "", 1),
       Client("Ann", "a@x.ru", "12345", "", 2)>>}

\* Client(name, email, phone, address, id): raises ValueError, and binds no
\* object, when the email or the phone fails validation
NewClient(c) ==
    /\ imp.pc # "run"
    /\ IF ClientInitRaises(c.email, c.phone)
       THEN /\ obj' = NoObj
            /\ last' = Returned("Client", Raised(DB, 0))
       ELSE /\ obj' = [pc |-> "client", c |-> c]
            /\ last' = Returned("Client", Result(DB, "object", NoId))
    /\ UNCHANGED <<clients, products, orders, order_items, seq, file, imp, tx, rd>>

AddHeld(fault) ==
    /\ imp.pc # "run"
    /\ obj.pc = "client"
    /\ DoAddClient(obj.c, fault)

UpdateHeld(fault) ==
    /\ imp.pc # "run"
    /\ obj.pc = "client"
    /\ DoUpdateClient(obj.c, fault)

\* a document written by hand or by another program
WriteDocument(cs) ==
    /\ imp.pc # "run"
    /\ file' = <<[clients |-> cs, products |-> <<>>, orders |-> <<>>]>>
    /\ UNCHANGED <<clients, products, orders, order_items, seq, last, imp, tx, rd, obj>>

\* one round of the loop over data['clients']; Client.from_dict calls the
\* constructor, whose ValueError leaves import_from_json
import_client_checked(d, data, fault) ==
    IF ClientInitRaises(data.email, data.phone) THEN Raised(d, 0)
    ELSE import_client(d, data, fault)

ImportClientStep(fault) ==
    /\ imp.pc = "run"
    /\ NextKind(imp) = "clients"
    /\ LET r == import_client_checked(DB, Head(imp.clients), fault)
       IN  /\ SetDB(r.db)
           /\ IF r.ret = "raised"
              THEN /\ imp' = [imp EXCEPT !.pc = "done"]
                   /\ last' = Returned("import_from_json", r)
              ELSE /\ imp' = [imp EXCEPT !.clients = Tail(imp.clients)]
                   /\ last' = last
    /\ UNCHANGED <<file, tx, rd, obj>>

NextValid ==
    \/ \E c \in RawClients : NewClient(c)
    \/ \E fault \in BOOLEAN : AddHeld(fault)
    \/ \E fault \in BOOLEAN : UpdateHeld(fault)
    \/ \E id \in Ids : imp.pc # "run" /\ DoDeleteClient(id, FALSE)
    \/ \E cs \in RawDocuments : WriteDocument(cs)
    \/ ImportBegin
    \/ \E fault \in BOOLEAN : ImportClientStep(fault)
    \/ ImportReturn

SpecValid == Init /\ [][NextValid]_vars

(* C27: constructing a Client with an email or a phone that fails         *)
(* validation raises and yields no object, so in every store state reached *)
(* through Client construction, add_client, update_client and              *)
(* import_from_json every stored client row has an email and a phone that  *)
(* pass is_valid_email and is_valid_phone.                                 *)
C27_StoredClientsAreValid ==
    /\ (last.op = "Client" /\ last.ret = "raised") => obj = NoObj
    /\ obj.pc = "client" =>
          is_valid_email(obj.c.email) /\ is_valid_phone(obj.c.phone)
    /\ \A k \in DOMAIN clients :
          is_valid_email(clients[k].email) /\ is_valid_phone(clients[k].phone)

\* an import has stored the first client of its document and has raised at
\* the second, whose email or phone fails validation
C27_Witness ==
    /\ last.op = "import_from_json" /\ last.ret = "raised"
    /\ imp.pc = "done"
    /\ Len(imp.clients) = 1
    /\ ~(is_valid_email(imp.clients[1].email) /\ is_valid_phone(imp.clients[1].phone))
    /\ DOMAIN clients # {}

----------------------------------------------------------------------------
(* The whole store on a storage engine that may fail any call *)

NextFaulty == ClientCalls(BOOLEAN) \/ ProductCalls(BOOLEAN) \/ OrderCalls(BOOLEAN)

SpecFaulty == Init /\ [][NextFaulty]_vars

\* the add of this table has returned an identity: it is larger than every
\* identity the table has ever handed out, and is not in the table
NewIdentity(op, tbl, was, is) ==
    (last'.op = op /\ last'.ret = "id") =>
        /\ last'.id > was
        /\ \A k \in DOMAIN tbl : last'.id > k
        /\ is = last'.id

\* the largest identity a table has handed out never goes down, and covers
\* the rows of the table
HighWater(tbl, was, is) ==
    /\ is >= was
    /\ \A k \in DOMAIN tbl : k <= was

(* C28: within one store the identities handed out by add_client,         *)
(* add_product and add_order are strictly increasing per table over the    *)
(* whole history of calls: an identity freed by a delete is never given to *)
(* a later row.                                                            *)
C28_IdentitiesIncrease ==
    [][/\ NewIdentity("add_client", clients, seq.clients, seq'.clients)
       /\ NewIdentity("add_product", products, seq.products, seq'.products)
       /\ NewIdentity("add_order", orders, seq.orders, seq'.orders)
       /\ HighWater(clients, seq.clients, seq'.clients)
       /\ HighWater(products, seq.products, seq'.products)
       /\ HighWater(orders, seq.orders, seq'.orders)]_vars

\* client 1 was deleted and the next add_client has returned 2, not 1
C28_Witness ==
    /\ last.op = "add_client" /\ last.ret = "id" /\ last.id = 2
    /\ DOMAIN clients = {2}

----------------------------------------------------------------------------
(* The store with imports, and with order calls that the storage engine    *)
(* fails *)

FailedOrderCalls ==
    /\ imp.pc = "idle"
    /\ \/ \E o \in ImpOrderInputs :
             \E faultAt \in FaultPoints(o, BOOLEAN) \ {NoFault} :
                 seq.orders < MaxImpRows /\ DoAddOrder(o, faultAt)
       \/ \E id \in 1..MaxImpRows : DoDeleteOrder(id, TRUE)

NextAll == NextImport \/ FailedOrderCalls

SpecAll == Init /\ [][NextAll]_vars

(* C29: in every store state reached by successful or failed add_order,   *)
(* delete_order, import_from_json and client and product calls, every row  *)
(* of order_items refers to an order header that is stored: no item row is *)
(* left without its header.                                                *)
C29_NoItemWithoutHeader ==
    \A i \in 1..Len(order_items) : order_items[i].order_id \in DOMAIN orders

\* order 1 was exported and deleted, and the import has stored it again
\* with its items, as order 2
C29_Witness ==
    /\ last.op = "import_from_json" /\ last.ret = "None"
    /\ DOMAIN orders = {2}
    /\ Len(order_items) >= 2
    /\ \A i \in 1..Len(order_items) : order_items[i].order_id = 2

====
